---- MODULE Spec2Model ----
(***************************************************************************)
(* Binary codecs of helper.py: fixed-width little-endian integers, varints *)
(* over a byte stream, and base-58 text with a 4-byte checksum.            *)
(*                                                                         *)
(* A Python int is unbounded; it is held here as the sequence of its       *)
(* base-65536 limbs, least significant first, with no zero limb on top     *)
(* (<<>> is 0).  A bytes object is a sequence of numbers in 0..255, a str   *)
(* of ASCII text the sequence of its character codes.  A call's outcome is *)
(* a record: the value it returns, or the exception it raises.             *)
(***************************************************************************)
EXTENDS Integers, Sequences, FiniteSets, TLC

VARIABLES
    pc,        \* position of the calling test program
    i,         \* varint codec: the integer handed to encode_varint
    encoded,   \* varint codec: outcome of encode_varint(i)
    decoded,   \* varint codec: outcome of read_varint(BytesIO(encoded))
    buf,       \* stream: the bytes the stream holds
    pos,       \* stream: the cursor
    written,   \* stream: the integers whose encodings were appended, in order
    reads,     \* stream: one record per read_varint call, in order
    n,         \* endian codec: the integer handed to int_to_little_endian
    length,    \* endian codec: the length handed to int_to_little_endian
    le,        \* endian codec: outcome of int_to_little_endian(n, length)
    back,      \* endian codec: outcome of little_endian_to_int(le)
    s,         \* base58: the bytes handed to the encoder
    mode,      \* base58: which encoder was called
    text,      \* base58: outcome of the encoder
    out,       \* base58: outcome of decode_base58(text)
    ver,       \* base58: version byte put back in front of the decoded bytes
    again,     \* base58: outcome of encode_base58_checksum(ver + out)
    oracle     \* hashing: the checksums double_sha256 has produced so far

vars == <<pc, i, encoded, decoded, buf, pos, written, reads, n, length, le,
          back, s, mode, text, out, ver, again, oracle>>

varintVars == <<i, encoded, decoded>>
streamVars == <<buf, pos, written, reads>>
endianVars == <<n, length, le, back>>
base58Vars == <<s, mode, text, out, ver, again, oracle>>

(***************************************************************************)
(* Bounds of the model.                                                    *)
(***************************************************************************)
\* limbs of the integers drawn as inputs (5 limbs reach past 2^64)
MaxLimbs == 5
\* byte lengths handed to int_to_little_endian
MaxLength == 9
\* encodings appended to a stream, and read_varint calls made on it
MaxWrites == 2
MaxReads == 3
\* leading zero bytes and following bytes of the byte strings encoded
MaxZeros == 3
MaxTail == 24

(***************************************************************************)
(* Outcomes of a call.                                                     *)
(***************************************************************************)
Ok(v) == [ok |-> TRUE, val |-> v, err |-> ""]
Raise(e) == [ok |-> FALSE, val |-> <<>>, err |-> e]
None == [ok |-> FALSE, val |-> <<>>, err |-> "not called"]

Min(a, b) == IF a < b THEN a ELSE b

Reverse(q) == [k \in 1..Len(q) |-> q[Len(q) + 1 - k]]

Repeat(x, k) == [j \in 1..k |-> x]

(***************************************************************************)
(* Python's int.                                                           *)
(***************************************************************************)
RECURSIVE IntNorm(_)
IntNorm(ds) ==
    IF ds = <<>> THEN <<>>
    ELSE IF ds[Len(ds)] = 0 THEN IntNorm(SubSeq(ds, 1, Len(ds) - 1))
    ELSE ds

IntOfSmall(x) == IF x = 0 THEN <<>> ELSE <<x>>

\* a < b, compared from the top limb down
RECURSIVE LessFrom(_, _, _)
LessFrom(a, b, k) ==
    IF k = 0 THEN FALSE
    ELSE IF a[k] # b[k] THEN a[k] < b[k]
    ELSE LessFrom(a, b, k - 1)

IntLess(a, b) ==
    IF Len(a) # Len(b) THEN Len(a) < Len(b) ELSE LessFrom(a, b, Len(a))

\* a * m + c for small m and c
RECURSIVE CarryAt(_, _, _, _)
CarryAt(a, m, c, k) ==
    IF k = 1 THEN c
    ELSE (a[k - 1] * m + CarryAt(a, m, c, k - 1)) \div 65536

IntMulAdd(a, m, c) ==
    IF a = <<>> THEN IntOfSmall(c)
    ELSE IntNorm([k \in 1..(Len(a) + 1) |->
        IF k <= Len(a) THEN (a[k] * m + CarryAt(a, m, c, k)) % 65536
        ELSE CarryAt(a, m, c, k)])

\* divmod(a, d) for small d: long division from the top limb down
RECURSIVE RemAt(_, _, _)
RemAt(a, d, k) ==
    IF k > Len(a) THEN 0
    ELSE (RemAt(a, d, k + 1) * 65536 + a[k]) % d

divmod(a, d) ==
    IF a = <<>> THEN [quot |-> <<>>, rem |-> 0]
    ELSE
    [quot |-> IntNorm([k \in 1..Len(a) |->
                  (RemAt(a, d, k + 1) * 65536 + a[k]) \div d]),
     rem |-> RemAt(a, d, 1)]

\* number of bytes the integer needs
ByteLength(a) ==
    IF a = <<>> THEN 0
    ELSE 2 * (Len(a) - 1) + (IF a[Len(a)] < 256 THEN 1 ELSE 2)

\* byte j (from 1, least significant first) of the integer
ByteAt(a, j) ==
    LET k == (j + 1) \div 2
    IN  IF k > Len(a) THEN 0
        ELSE IF j % 2 = 1 THEN a[k] % 256 ELSE a[k] \div 256

\* int.to_bytes(length, byteorder)
to_bytes(a, len, byteorder) ==
    IF ByteLength(a) > len THEN Raise("OverflowError")
    ELSE LET little == [j \in 1..len |-> ByteAt(a, j)]
         IN  Ok(IF byteorder = "little" THEN little ELSE Reverse(little))

\* int.from_bytes(b, byteorder)
from_bytes(b, byteorder) ==
    LET little == IF byteorder = "little" THEN b ELSE Reverse(b)
    IN  IntNorm([k \in 1..((Len(b) + 1) \div 2) |->
            little[2 * k - 1]
            + (IF 2 * k <= Len(b) THEN 256 * little[2 * k] ELSE 0)])

(***************************************************************************)
(* Endian codec.                                                           *)
(***************************************************************************)
little_endian_to_int(b) == from_bytes(b, "little")

\* int_to_little_endian writing the most significant byte first
int_to_big_endian(a, len) == to_bytes(a, len, "big")

int_to_little_endian(a, len) == to_bytes(a, len, "little")

(***************************************************************************)
(* Varint codec.                                                           *)
(***************************************************************************)
\* the literals 0xfd, 0x10000, 0x100000000 and 0x10000000000000000
Hex_fd == <<253>>
Hex_10000 == <<0, 1>>
Hex_100000000 == <<0, 0, 1>>
Hex_10000000000000000 == <<0, 0, 0, 0, 1>>

\* s.read(k) of an in-memory stream: the bytes left, at most k of them
StreamRead(b, p, k) ==
    [data |-> SubSeq(b, p + 1, Min(p + k, Len(b))), pos |-> Min(p + k, Len(b))]

\* ReadWide reading from a slice: the cursor stays behind the marker byte
ReadWide_peek(b, p, k) ==
    LET r == StreamRead(b, p, k)
    IN  [res |-> Ok(little_endian_to_int(r.data)), pos |-> p]

\* the tail of read_varint after a marker byte: k bytes, as one integer
ReadWide(b, p, k) ==
    LET r == StreamRead(b, p, k)
    IN  [res |-> Ok(little_endian_to_int(r.data)), pos |-> r.pos]

\* read_varint taking 0xfe for a 2-byte marker
read_varint_narrow(b, p) ==
    LET first == StreamRead(b, p, 1)
    IN  IF first.data = <<>> THEN [res |-> Raise("IndexError"), pos |-> first.pos]
        ELSE IF first.data[1] = 253 THEN ReadWide(b, first.pos, 2)
        ELSE IF first.data[1] = 254 THEN ReadWide(b, first.pos, 2)
        ELSE IF first.data[1] = 255 THEN ReadWide(b, first.pos, 8)
        ELSE [res |-> Ok(IntOfSmall(first.data[1])), pos |-> first.pos]

read_varint(b, p) ==
    LET first == StreamRead(b, p, 1)
    IN  IF first.data = <<>> THEN [res |-> Raise("IndexError"), pos |-> first.pos]
        ELSE IF first.data[1] = 253 THEN ReadWide(b, first.pos, 2)
        ELSE IF first.data[1] = 254 THEN ReadWide(b, first.pos, 4)
        ELSE IF first.data[1] = 255 THEN ReadWide(b, first.pos, 8)
        ELSE [res |-> Ok(IntOfSmall(first.data[1])), pos |-> first.pos]

\* marker byte followed by the integer in k little-endian bytes
Marked(marker, a, k) ==
    LET tail == int_to_little_endian(a, k)
    IN  IF tail.ok THEN Ok(<<marker>> \o tail.val) ELSE tail

\* encode_varint with its first boundary off by one (i <= 0xfd)
encode_varint_offbyone(a) ==
    IF IntLess(a, <<254>>) THEN Ok(<<ByteAt(a, 1)>>)
    ELSE IF IntLess(a, Hex_10000) THEN Marked(253, a, 2)
    ELSE IF IntLess(a, Hex_100000000) THEN Marked(254, a, 4)
    ELSE IF IntLess(a, Hex_10000000000000000) THEN Marked(255, a, 8)
    ELSE Raise("RuntimeError")

\* encode_varint without its range check: the low 8 bytes of any larger integer
encode_varint_wrap(a) ==
    IF IntLess(a, Hex_fd) THEN Ok(<<ByteAt(a, 1)>>)
    ELSE IF IntLess(a, Hex_10000) THEN Marked(253, a, 2)
    ELSE IF IntLess(a, Hex_100000000) THEN Marked(254, a, 4)
    ELSE Ok(<<255>> \o [j \in 1..8 |-> ByteAt(a, j)])

encode_varint(a) ==
    IF IntLess(a, Hex_fd) THEN Ok(<<ByteAt(a, 1)>>)
    ELSE IF IntLess(a, Hex_10000) THEN Marked(253, a, 2)
    ELSE IF IntLess(a, Hex_100000000) THEN Marked(254, a, 4)
    ELSE IF IntLess(a, Hex_10000000000000000) THEN Marked(255, a, 8)
    ELSE Raise("RuntimeError")

(***************************************************************************)
(* Inputs.                                                                 *)
(***************************************************************************)
LowLimbs == {0, 1, 252, 253, 254, 255, 256, 513, 65535}
TopLimbs == {1, 255, 256, 65535}
FillLimbs == {0, 65535}

\* integers of at most k limbs around the codec's boundaries
Ints(k) ==
    {<<>>}
    \cup {<<x>> : x \in (LowLimbs \cup TopLimbs) \ {0}}
    \cup {<<lo, hi>> : lo \in LowLimbs, hi \in TopLimbs}
    \cup UNION {{[j \in 1..len |-> IF j = 1 THEN lo
                                   ELSE IF j = len THEN hi ELSE fill] :
                    lo \in LowLimbs, fill \in FillLimbs, hi \in TopLimbs} :
                len \in 3..k}

(***************************************************************************)
(* The varint codec called on one integer: encode it, then read it back    *)
(* from a fresh stream over the encoding.                                  *)
(***************************************************************************)
IdleStream == buf = <<>> /\ pos = 0 /\ written = <<>> /\ reads = <<>>
IdleVarint == i = <<>> /\ encoded = None /\ decoded = None
IdleEndian == n = <<>> /\ length = 0 /\ le = None /\ back = None
IdleBase58 ==
    /\ s = <<>> /\ mode = "none" /\ text = None /\ out = None
    /\ ver = 0 /\ again = None /\ oracle = {}

InitVarint ==
    /\ pc = "start"
    /\ i \in Ints(MaxLimbs)
    /\ encoded = None /\ decoded = None
    /\ IdleStream /\ IdleEndian /\ IdleBase58

CallEncodeVarint ==
    /\ pc = "start"
    /\ encoded' = encode_varint(i)
    /\ pc' = "encoded"
    /\ UNCHANGED <<i, decoded, streamVars, endianVars, base58Vars>>

CallReadVarint ==
    /\ pc = "encoded"
    /\ encoded.ok
    /\ decoded' = read_varint(encoded.val, 0).res
    /\ pc' = "decoded"
    /\ UNCHANGED <<i, encoded, streamVars, endianVars, base58Vars>>

NextVarint == CallEncodeVarint \/ CallReadVarint

SpecVarint == InitVarint /\ [][NextVarint]_vars

(***************************************************************************)
(* The endian codec called on one integer and one length.                  *)
(***************************************************************************)
InitEndian ==
    /\ pc = "start"
    /\ n \in Ints(MaxLimbs)
    /\ length \in 0..MaxLength
    /\ le = None /\ back = None
    /\ IdleStream /\ IdleVarint /\ IdleBase58

CallIntToLittleEndian ==
    /\ pc = "start"
    /\ le' = int_to_little_endian(n, length)
    /\ pc' = "encoded"
    /\ UNCHANGED <<n, length, back, streamVars, varintVars, base58Vars>>

CallLittleEndianToInt ==
    /\ pc = "encoded"
    /\ le.ok
    /\ back' = Ok(little_endian_to_int(le.val))
    /\ pc' = "decoded"
    /\ UNCHANGED <<n, length, le, streamVars, varintVars, base58Vars>>

NextEndian == CallIntToLittleEndian \/ CallLittleEndianToInt

SpecEndian == InitEndian /\ [][NextEndian]_vars

(***************************************************************************)
(* A stream of varints: a caller appends encodings, the stream may reach   *)
(* the reader cut short, and read_varint is called on it again and again.  *)
(***************************************************************************)
StreamInts ==
    {<<>>, <<252>>, <<253>>, <<255>>, <<513>>, <<65535>>, <<0, 1>>,
     <<65535, 65535>>, <<0, 0, 1>>, Hex_10000000000000000}
    \cup {[j \in 1..4 |-> IF j = 1 THEN 513 ELSE 65535]}

InitStream ==
    /\ pc = "writing"
    /\ buf = <<>> /\ pos = 0 /\ written = <<>> /\ reads = <<>>
    /\ IdleVarint /\ IdleEndian /\ IdleBase58

\* the caller appends encode_varint(v) to the stream; nothing is appended
\* when encode_varint raises
AppendVarint(v) ==
    /\ pc = "writing"
    /\ Len(written) < MaxWrites
    /\ LET e == encode_varint(v)
       IN  IF e.ok
               THEN buf' = buf \o e.val /\ written' = Append(written, v)
               ELSE UNCHANGED <<buf, written>>
    /\ UNCHANGED <<pc, pos, reads, varintVars, endianVars, base58Vars>>

\* the stream reaches the reader cut short: only its first k bytes
Truncate(k) ==
    /\ pc = "writing"
    /\ k < Len(buf)
    /\ buf' = SubSeq(buf, 1, k)
    /\ pc' = "reading"
    /\ UNCHANGED <<pos, written, reads, varintVars, endianVars, base58Vars>>

\* one read_varint call on the stream
ReadVarint ==
    /\ pc \in {"writing", "reading"}
    /\ Len(reads) < MaxReads
    /\ LET r == read_varint(buf, pos)
       IN  /\ pos' = r.pos
           /\ reads' = Append(reads, [at |-> pos, res |-> r.res, end |-> r.pos])
    /\ pc' = "reading"
    /\ UNCHANGED <<buf, written, varintVars, endianVars, base58Vars>>

NextStream ==
    \/ \E v \in StreamInts : AppendVarint(v)
    \/ \E k \in 0..(Len(buf) - 1) : Truncate(k)
    \/ ReadVarint

SpecStream == InitStream /\ [][NextStream]_vars

(***************************************************************************)
(* Base58Check codec.                                                      *)
(***************************************************************************)
\* b'123456789ABCDEFGHJKLMNPQRSTUVWXYZabcdefghijkmnopqrstuvwxyz'
BASE58_ALPHABET ==
    <<49, 50, 51, 52, 53, 54, 55, 56, 57, 65, 66, 67, 68, 69, 70, 71, 72, 74,
      75, 76, 77, 78, 80, 81, 82, 83, 84, 85, 86, 87, 88, 89, 90, 97, 98, 99,
      100, 101, 102, 103, 104, 105, 106, 107, 109, 110, 111, 112, 113, 114,
      115, 116, 117, 118, 119, 120, 121, 122>>

\* b'0123456789abcdef', the digits hexlify writes
HexDigits ==
    <<48, 49, 50, 51, 52, 53, 54, 55, 56, 57, 97, 98, 99, 100, 101, 102>>

\* binascii.hexlify: two hex digits a byte, high nibble first
hexlify(b) ==
    [k \in 1..(2 * Len(b)) |->
        IF k % 2 = 1 THEN HexDigits[(b[(k + 1) \div 2] \div 16) + 1]
        ELSE HexDigits[(b[k \div 2] % 16) + 1]]

\* the value of hex digit j of h, 0 left of its first digit
HexValueAt(h, j) ==
    IF j < 1 THEN 0 ELSE (CHOOSE d \in 1..16 : HexDigits[d] = h[j]) - 1

\* int(h, 16): four hex digits make one limb
int16(h) ==
    IF h = <<>> THEN Raise("ValueError")
    ELSE Ok(IntNorm([k \in 1..((Len(h) + 3) \div 4) |->
                HexValueAt(h, Len(h) - 4 * k + 4)
                + 16 * HexValueAt(h, Len(h) - 4 * k + 3)
                + 256 * HexValueAt(h, Len(h) - 4 * k + 2)
                + 4096 * HexValueAt(h, Len(h) - 4 * k + 1)]))

\* the loop of decode_base58 over the first k characters of txt:
\* num *= 58, num += BASE58_ALPHABET.index(c)
RECURSIVE Base58Value(_, _)
Base58Value(txt, k) ==
    IF k = 0 THEN <<>>
    ELSE IntMulAdd(Base58Value(txt, k - 1), 58,
                   (CHOOSE d \in 1..58 : BASE58_ALPHABET[d] = txt[k]) - 1)

\* the loop of encode_base58 that counts the 0 bytes s starts with
RECURSIVE LeadingZeros(_)
LeadingZeros(b) ==
    IF b = <<>> THEN 0
    ELSE IF b[1] = 0 THEN 1 + LeadingZeros(Tail(b))
    ELSE 0

\* the loop of encode_base58 that appends each digit at the end of result
RECURSIVE Base58Digits_append(_, _)
Base58Digits_append(num, result) ==
    IF num = <<>> THEN result
    ELSE Base58Digits_append(divmod(num, 58).quot,
                             result \o <<BASE58_ALPHABET[divmod(num, 58).rem + 1]>>)

\* the loop of encode_base58: while num > 0, divmod by 58, insert at the front
RECURSIVE Base58Digits(_, _)
Base58Digits(num, result) ==
    IF num = <<>> THEN result
    ELSE Base58Digits(divmod(num, 58).quot,
                      <<BASE58_ALPHABET[divmod(num, 58).rem + 1]>> \o result)

encode_base58(b) ==
    LET count == LeadingZeros(b)
        prefix == Repeat(49, count)
        num == int16(hexlify(b))
    IN  IF num.ok THEN Ok(prefix \o Base58Digits(num.val, <<>>)) ELSE num

\* encode_base58_checksum, given the first 4 bytes of double_sha256(s)
encode_base58_checksum(b, digest4) == encode_base58(b \o digest4)

\* decode_base58 keeping the first byte: [:-4]
decode_base58_nostrip(txt) ==
    IF \E k \in 1..Len(txt) : \A d \in 1..58 : BASE58_ALPHABET[d] # txt[k]
        THEN Raise("ValueError")
    ELSE LET num == Base58Value(txt, Len(txt))
             wide == to_bytes(num, 25, "big")
         IN  IF wide.ok THEN Ok(SubSeq(wide.val, 1, 21)) ELSE wide

\* decode_base58 rendering the number least significant byte first
decode_base58_little(txt) ==
    IF \E k \in 1..Len(txt) : \A d \in 1..58 : BASE58_ALPHABET[d] # txt[k]
        THEN Raise("ValueError")
    ELSE LET num == Base58Value(txt, Len(txt))
             wide == to_bytes(num, 25, "little")
         IN  IF wide.ok THEN Ok(SubSeq(wide.val, 2, 21)) ELSE wide

decode_base58(txt) ==
    IF \E k \in 1..Len(txt) : \A d \in 1..58 : BASE58_ALPHABET[d] # txt[k]
        THEN Raise("ValueError")
    ELSE LET num == Base58Value(txt, Len(txt))
             wide == to_bytes(num, 25, "big")
         IN  IF wide.ok THEN Ok(SubSeq(wide.val, 2, 21)) ELSE wide

(***************************************************************************)
(* double_sha256 is not computed here.  It is a function the model knows   *)
(* nothing about: the first time it is called on an argument its first 4   *)
(* bytes are any of Checksums, and a later call on the same argument       *)
(* returns the same bytes.                                                 *)
(***************************************************************************)
Checksums == {<<0, 0, 0, 0>>, <<18, 52, 86, 120>>, <<255, 255, 255, 255>>}

Hashed(x) == \E e \in oracle : e.arg = x

\* double_sha256(x)[:4], c being the value of a first call
double_sha256_4(x, c) ==
    IF Hashed(x) THEN (CHOOSE e \in oracle : e.arg = x).sum ELSE c

(***************************************************************************)
(* The base-58 codec called on one byte string: encode it with or without  *)
(* checksum, decode the text, and encode the decoded bytes again behind a  *)
(* version byte.                                                           *)
(***************************************************************************)
Patterns == {"zero", "ff", "count", "one", "addr"}

PatternByte(pat, j) ==
    CASE pat = "zero" -> 0
      [] pat = "ff" -> 255
      [] pat = "count" -> j
      [] pat = "one" -> IF j = 1 THEN 1 ELSE 0
      [] pat = "addr" -> IF j = 1 THEN 111 ELSE (j * 37) % 256

\* k zero bytes, then m bytes of a pattern
ByteStrings ==
    {Repeat(0, k) \o [j \in 1..m |-> PatternByte(pat, j)] :
        k \in 0..MaxZeros, m \in 0..MaxTail, pat \in Patterns}

Versions == {0, 111}

InitBase58 ==
    /\ pc = "start"
    /\ s \in ByteStrings
    /\ mode = "none" /\ text = None /\ out = None
    /\ ver = 0 /\ again = None /\ oracle = {}
    /\ IdleStream /\ IdleVarint /\ IdleEndian

CallEncodeBase58 ==
    /\ pc = "start"
    /\ mode' = "plain"
    /\ text' = encode_base58(s)
    /\ pc' = "encoded"
    /\ UNCHANGED <<s, out, ver, again, oracle, streamVars, varintVars, endianVars>>

CallEncodeBase58Checksum(c) ==
    /\ pc = "start"
    /\ mode' = "checksum"
    /\ oracle' = oracle \cup {[arg |-> s, sum |-> double_sha256_4(s, c)]}
    /\ text' = encode_base58_checksum(s, double_sha256_4(s, c))
    /\ pc' = "encoded"
    /\ UNCHANGED <<s, out, ver, again, streamVars, varintVars, endianVars>>

CallDecodeBase58 ==
    /\ pc = "encoded"
    /\ text.ok
    /\ out' = decode_base58(text.val)
    /\ pc' = "decoded"
    /\ UNCHANGED <<s, mode, text, ver, again, oracle, streamVars, varintVars,
                   endianVars>>

CallEncodeAgain(v, c) ==
    /\ pc = "decoded"
    /\ mode = "checksum"
    /\ out.ok
    /\ ver' = v
    /\ LET x == <<v>> \o out.val
       IN  /\ oracle' = oracle \cup {[arg |-> x, sum |-> double_sha256_4(x, c)]}
           /\ again' = encode_base58_checksum(x, double_sha256_4(x, c))
    /\ pc' = "again"
    /\ UNCHANGED <<s, mode, text, out, streamVars, varintVars, endianVars>>

NextBase58 ==
    \/ CallEncodeBase58
    \/ \E c \in Checksums : CallEncodeBase58Checksum(c)
    \/ CallDecodeBase58
    \/ \E v \in Versions, c \in Checksums : CallEncodeAgain(v, c)

SpecBase58 == InitBase58 /\ [][NextBase58]_vars

(***************************************************************************)
(* Properties of the varint codec and of the endian codec.                 *)
(***************************************************************************)
\* 256^k
Pow256(k) == Repeat(0, k \div 2) \o (IF k % 2 = 0 THEN <<1>> ELSE <<256>>)

\* limb k of the integer a, 0 above its top limb
LimbAt(a, k) == IF k <= Len(a) THEN a[k] ELSE 0

\* b is the integer a written least significant byte first
IsLittleEndianOf(b, a) ==
    /\ Len(a) <= (Len(b) + 1) \div 2
    /\ \A k \in 1..((Len(b) + 1) \div 2) :
           b[2 * k - 1] + (IF 2 * k <= Len(b) THEN 256 * b[2 * k] ELSE 0)
               = LimbAt(a, k)

Max64 == <<65535, 65535, 65535, 65535>>

\* C1: for every integer v in [0, 2^64 - 1], encode_varint(v) succeeds and
\* read_varint on a stream positioned at the start of it returns exactly v.
C1_RoundTrip ==
    /\ (pc # "start" /\ IntLess(i, Hex_10000000000000000)) => encoded.ok
    /\ pc = "decoded" => decoded = Ok(i)

C1_Witness == pc = "decoded" /\ i = Max64 /\ decoded.ok

\* C4: for every v in [0, 2^64 - 1] the encoding is 1 byte equal to v below
\* 0xfd, else 0xfd and 2 little-endian bytes below 0x10000, else 0xfe and 4
\* below 0x100000000, else 0xff and 8: the narrowest case that holds v.
C4_Canonical ==
    (pc # "start" /\ IntLess(i, Hex_10000000000000000)) =>
        /\ encoded.ok
        /\ LET e == encoded.val
               body == SubSeq(e, 2, Len(e))
           IN  IF IntLess(i, Hex_fd)
                   THEN Len(e) = 1 /\ e[1] < 253 /\ IsLittleEndianOf(e, i)
               ELSE IF IntLess(i, Hex_10000)
                   THEN Len(e) = 3 /\ e[1] = 253 /\ IsLittleEndianOf(body, i)
               ELSE IF IntLess(i, Hex_100000000)
                   THEN Len(e) = 5 /\ e[1] = 254 /\ IsLittleEndianOf(body, i)
               ELSE Len(e) = 9 /\ e[1] = 255 /\ IsLittleEndianOf(body, i)

C4_Witness ==
    /\ pc = "encoded" /\ i = Hex_100000000
    /\ encoded = Ok(<<255, 0, 0, 0, 0, 1, 0, 0, 0>>)

\* C7: encode_varint fails for every v >= 2^64 and returns no bytes: the
\* value is never truncated or wrapped into a 9-byte encoding.
C7_TooLarge ==
    (pc # "start" /\ ~IntLess(i, Hex_10000000000000000)) =>
        ~encoded.ok /\ encoded.err = "RuntimeError" /\ encoded.val = <<>>

C7_Witness ==
    pc = "encoded" /\ i = Hex_10000000000000000 /\ ~encoded.ok

\* C9: for every length len and every v in [0, 256^len - 1],
\* int_to_little_endian(v, len) is exactly len bytes, least significant
\* first, and little_endian_to_int of them is v.
C9_EndianRoundTrip ==
    /\ (pc # "start" /\ IntLess(n, Pow256(length))) =>
           /\ le.ok
           /\ Len(le.val) = length
           /\ IsLittleEndianOf(le.val, n)
    /\ (pc = "decoded" /\ IntLess(n, Pow256(length))) => back = Ok(n)

C9_Witness ==
    /\ pc = "decoded" /\ n = <<513, 255>> /\ length = 4
    /\ le = Ok(<<1, 2, 255, 0>>) /\ back = Ok(n)

(***************************************************************************)
(* Properties of a stream of varints.                                      *)
(***************************************************************************)
\* the width the codec's four cases give an integer below 2^64
Width(v) ==
    IF IntLess(v, Hex_fd) THEN 1
    ELSE IF IntLess(v, Hex_10000) THEN 3
    ELSE IF IntLess(v, Hex_100000000) THEN 5
    ELSE 9

\* encode_varint(vs[1]) || ... || encode_varint(vs[k])
RECURSIVE Concatenation(_, _)
Concatenation(vs, k) ==
    IF k = 0 THEN <<>>
    ELSE Concatenation(vs, k - 1) \o encode_varint(vs[k]).val

\* where encoding k starts in the concatenation
RECURSIVE Offset(_, _)
Offset(vs, k) == IF k = 1 THEN 0 ELSE Offset(vs, k - 1) + Width(vs[k - 1])

Intact == buf = Concatenation(written, Len(written))

\* C10: on a stream that holds encode_varint(v1) || ... || encode_varint(vk),
\* successive read_varint calls return v1..vk in order, each advancing the
\* cursor by exactly the length of its encoding (1, 3, 5 or 9 bytes), so the
\* cursor is at the end of the stream after the k-th call.
C10_SequentialReads ==
    Intact =>
        /\ \A k \in 1..Min(Len(reads), Len(written)) :
              /\ reads[k].res = Ok(written[k])
              /\ reads[k].at = Offset(written, k)
              /\ reads[k].end = reads[k].at + Width(written[k])
        /\ Len(reads) = Len(written) => pos = Len(buf)

C10_Witness ==
    /\ Intact
    /\ written = <<Hex_10000, <<252>>>>
    /\ Len(reads) = 2
    /\ pos = 6

\* the bytes a read_varint call needs when it starts at cursor p
Needed(b, p) ==
    IF p >= Len(b) THEN 1
    ELSE IF b[p + 1] = 253 THEN 3
    ELSE IF b[p + 1] = 254 THEN 5
    ELSE IF b[p + 1] = 255 THEN 9
    ELSE 1

\* C3: read_varint fails whenever the stream yields fewer bytes than it
\* needs: an empty stream at the prefix byte, or fewer than 2, 4 or 8 bytes
\* after 0xfd, 0xfe or 0xff; it never returns a value from a short read.
C3_ShortReadFails ==
    \A k \in 1..Len(reads) :
        Len(buf) - reads[k].at < Needed(buf, reads[k].at) => ~reads[k].res.ok

(***************************************************************************)
(* Properties of the base-58 codec.                                        *)
(***************************************************************************)
Called == pc \in {"encoded", "decoded", "again"}
Decoded == pc \in {"decoded", "again"}

\* C2 as stated: for every byte string b, of any length,
\* decode_base58(encode_base58_checksum(b)) == b.
C2_AnyLength ==
    (mode = "checksum" /\ Called) =>
        /\ text.ok
        /\ Decoded => out = Ok(s)

\* C2 as amended: for every byte string b of exactly 20 bytes,
\* decode_base58(encode_base58_checksum(b)) == b, leading zero bytes
\* included.
C2_TwentyBytes ==
    (mode = "checksum" /\ Called /\ Len(s) = 20) =>
        /\ text.ok
        /\ Decoded => out = Ok(s)

C2_Witness ==
    /\ mode = "checksum" /\ pc = "decoded"
    /\ Len(s) = 20 /\ s[1] = 0 /\ s[2] = 0 /\ s[4] = 255
    /\ out = Ok(s)

\* C5: for a 1-byte version v and a 20-byte payload p,
\* decode_base58(encode_base58_checksum(v || p)) is exactly p, bytes 2..21
\* of the 25-byte buffer; and for the text a so produced,
\* encode_base58_checksum(v || decode_base58(a)) == a.
C5_Address ==
    (mode = "checksum" /\ Called /\ Len(s) = 21) =>
        /\ text.ok
        /\ Decoded => out = Ok(SubSeq(s, 2, 21)) /\ Len(out.val) = 20
        /\ (pc = "again" /\ ver = s[1]) => again = text

C5_Witness ==
    /\ mode = "checksum" /\ pc = "again"
    /\ Len(s) = 21 /\ s[1] = 111 /\ ver = 111
    /\ again = text /\ again.ok

C8_LeadingOnes ==
    (mode = "plain" /\ Called) =>
        /\ text.ok
        /\ LET k == CHOOSE z \in 0..Len(s) :
                       /\ \A j \in 1..z : s[j] = 0
                       /\ z < Len(s) => s[z + 1] # 0
           IN  /\ Len(text.val) >= k
               /\ \A j \in 1..k : text.val[j] = 49
               /\ k = Len(s) => Len(text.val) = k
               /\ k < Len(s) => Len(text.val) > k /\ text.val[k + 1] # 49

\* what holds of encode_base58 on every input but the empty one
C8_NonEmpty ==
    (mode = "plain" /\ Called) =>
        IF s = <<>> THEN text = Raise("ValueError")
        ELSE /\ text.ok
             /\ LET k == CHOOSE z \in 0..Len(s) :
                            /\ \A j \in 1..z : s[j] = 0
                            /\ z < Len(s) => s[z + 1] # 0
                IN  /\ Len(text.val) >= k
                    /\ \A j \in 1..k : text.val[j] = 49
                    /\ k = Len(s) => Len(text.val) = k
                    /\ k < Len(s) => Len(text.val) > k /\ text.val[k + 1] # 49

====
